---- MODULE Spec2Model ----
(***************************************************************************)
(* Checkout / coupon reconciliation flow of the storefront backend         *)
(* (backend/controllers/payment.js), and the browser's cart store, user    *)
(* store and axios response interceptor.                                   *)
(*                                                                         *)
(* Every HTTP request is handled by its own asynchronous handler; a        *)
(* handler suspends at each `await` and other requests run meanwhile.      *)
(* One action of the model is one resumption of a handler: the effect of   *)
(* the awaited call on the store or on the gateway, followed by the        *)
(* synchronous code up to the next `await` (or to the response).           *)
(*                                                                         *)
(* Numbers that are not integers (prices, totals in major units) are kept  *)
(* as fixed-point thousandths: the JS number 19.99 is the integer 19990.   *)
(* Minor-unit amounts (unit_amount, amount_total) are plain integers.      *)
(* An object key whose value is `undefined` is a field the record lacks.   *)
(***************************************************************************)
EXTENDS Integers, Sequences, FiniteSets, TLC

VARIABLES coupons, orders, sessions, proc

\* The browser: the cart store's state and the calls of its asynchronous
\* actions whose request has not settled yet; the user store's state; the
\* requests sent through axios, with the interceptor's refreshPromise.
VARIABLES cartStore, cartCalls, userStore, http

front == <<cartStore, cartCalls, userStore, http>>

vars == <<coupons, orders, sessions, proc, cartStore, cartCalls, userStore, http>>

----------------------------------------------------------------------------
(* Bounds *)

MaxCart == 2

MaxSessions == 1

MaxOrders == 2

MaxCoupons == 3

\* Calls of the cart store in flight at once, and the quantity a cart line
\* grows to.
MaxPending == 2

MaxQuantity == 2

\* Requests the browser sends through axios in one run.
MaxRequests == 3

----------------------------------------------------------------------------
(* Program constants *)

RewardThreshold == 20000

GiftDiscount == 10

----------------------------------------------------------------------------
(* Inputs *)

\* Two requests can be in flight at once.
Procs == {1, 2}

UserIds == {"u1", "u2"}

Codes == {"GIFTA", "GIFTB"}

\* req.user._id is an ObjectId; metadata carries its string form.
ObjectId(s) == [oid |-> s]

IdToString(o) == o.oid

\* Mongoose casts a string given for an ObjectId path back to an ObjectId.
CastObjectId(x) == IF DOMAIN x = {"oid"} THEN x ELSE [oid |-> x.str]

Str(s) == [str |-> s]

\* Cart items a client can send; price in thousandths of a major unit.
Items ==
  { [_id |-> "p1", name |-> "shirt", price |-> 50000, quantity |-> 2],
    [_id |-> "p2", name |-> "cap", price |-> 19996],
    [_id |-> "p3", name |-> "coat", price |-> 200000, quantity |-> 0],
    [id |-> "p4", name |-> "pin", price |-> 1004, quantity |-> 1] }

RECURSIVE SeqsUpTo(_, _)
SeqsUpTo(S, n) ==
  IF n = 0 THEN {<<>>}
  ELSE LET shorter == SeqsUpTo(S, n - 1)
       IN  shorter \cup {Append(s, x) : s \in {t \in shorter : Len(t) = n - 1}, x \in S}

\* req.body.products: an array of items, or something that is not an array.
Array(items) == [kind |-> "array", items |-> items]

NotArray == {[kind |-> "undefined", items |-> <<>>], [kind |-> "object", items |-> <<>>]}

ProductsInputs == {Array(s) : s \in SeqsUpTo(Items, MaxCart)} \cup NotArray

\* req.body.couponCode: absent, the empty string, or a code.
NoCode == "undefined"

CouponCodeInputs == {NoCode, ""} \cup Codes

Request(user, products, couponCode) ==
  [user |-> user, products |-> products, couponCode |-> couponCode]

\* Every checkout request over the inputs above.
AllCheckoutRequests ==
  {Request(u, ps, c) : u \in UserIds, ps \in ProductsInputs, c \in CouponCodeInputs}

Item(name) == CHOOSE i \in Items : i.name = name

\* The checkout requests sent while other requests are in flight: a cart
\* over the reward threshold and one under it, with no code, with the
\* user's own code and with a code of the other user; an empty cart.
CheckoutRequests ==
  { Request("u1", Array(<<Item("shirt"), Item("coat")>>), "GIFTA"),
    Request("u1", Array(<<Item("cap")>>), NoCode),
    Request("u2", Array(<<Item("cap"), Item("pin")>>), "GIFTA"),
    Request("u2", Array(<<Item("coat")>>), "GIFTB"),
    Request("u1", Array(<<>>), "GIFTA") }

\* JS truthiness of a couponCode value.
Truthy(code) == code # NoCode /\ code # ""

----------------------------------------------------------------------------
(* Pricing: lines 27-43 of payment.js *)

\* Math.round on a non-negative fixed-point number: nearest integer, half up.
MathRound(x) == (x + 500) \div 1000

\* Mutant of UnitAmount: the amount is truncated, not rounded.
UnitAmountTruncated(product) == (product.price * 100) \div 1000

\* Math.round(product.price * 100)
UnitAmount(product) == MathRound(product.price * 100)

\* product.quantity || 1
QuantityOrOne(product) ==
  IF "quantity" \in DOMAIN product /\ product.quantity # 0
  THEN product.quantity
  ELSE 1

Field(r, f, default) == IF f \in DOMAIN r THEN r[f] ELSE default

LineItem(product) ==
  [price_data |-> [currency |-> "inr",
                   product_data |-> [name |-> Field(product, "name", "undefined"),
                                     images |-> <<Field(product, "image", "undefined")>>],
                   unit_amount |-> UnitAmount(product)],
   quantity |-> QuantityOrOne(product)]

\* products.map((product) => ...)
LineItems(products) == [i \in 1..Len(products) |-> LineItem(products[i])]

\* Mutant of ApplyDiscount: the percentage is taken off as an amount.
ApplyFlatDiscount(totalAmount, coupon) == totalAmount - coupon.discountPercentage

\* totalAmount -= Math.round((totalAmount * coupon.discountPercentage) / 100),
\* totalAmount an integer, the quotient in thousandths.
ApplyDiscount(totalAmount, coupon) ==
  totalAmount - MathRound(totalAmount * coupon.discountPercentage * 10)

----------------------------------------------------------------------------
(* Metadata snapshot: JSON.stringify / JSON.parse, lines 75-81 and 127 *)

\* (p) => ({ id: p._id, quantity: p.quantity, price: p.price })
SnapshotEntry(p) ==
  LET withId == IF "_id" \in DOMAIN p THEN {"id"} ELSE {}
      withQty == IF "quantity" \in DOMAIN p THEN {"quantity"} ELSE {}
      keys == withId \cup withQty \cup {"price"}
  IN  [k \in keys |-> IF k = "id" THEN p._id ELSE p[k]]

\* JSON text as its sequence of tokens.  A key whose value is undefined is
\* not written.
Tok(t, v) == [t |-> t, v |-> v]

KeyOrder == <<"id", "quantity", "price">>

RECURSIVE StringifyKeys(_, _)
StringifyKeys(obj, i) ==
  IF i > Len(KeyOrder) THEN <<>>
  ELSE LET k == KeyOrder[i]
       IN  (IF k \in DOMAIN obj
            THEN <<Tok("key", Str(k)),
                   IF k = "id" THEN Tok("string", Str(obj[k])) ELSE Tok("number", obj[k])>>
            ELSE <<>>) \o StringifyKeys(obj, i + 1)

StringifyObject(obj) == <<Tok("{", 0)>> \o StringifyKeys(obj, 1) \o <<Tok("}", 0)>>

RECURSIVE StringifyElems(_, _)
StringifyElems(arr, i) ==
  IF i > Len(arr) THEN <<>>
  ELSE StringifyObject(arr[i]) \o StringifyElems(arr, i + 1)

JSONStringify(arr) == <<Tok("[", 0)>> \o StringifyElems(arr, 1) \o <<Tok("]", 0)>>

\* Parser state: position in the token sequence, objects finished so far and
\* the object being read.
RECURSIVE ParseFrom(_, _, _, _)
ParseFrom(toks, i, done, cur) ==
  IF i > Len(toks) THEN done
  ELSE LET tk == toks[i]
       IN  CASE tk.t = "[" -> ParseFrom(toks, i + 1, done, cur)
             [] tk.t = "]" -> done
             [] tk.t = "{" -> ParseFrom(toks, i + 1, done, <<>>)
             [] tk.t = "}" -> ParseFrom(toks, i + 1, Append(done, cur), <<>>)
             [] tk.t = "key" ->
                  LET k == tk.v.str
                      val == toks[i + 1]
                      v == IF val.t = "string" THEN val.v.str ELSE val.v
                      next == [x \in DOMAIN cur \cup {k} |-> IF x = k THEN v ELSE cur[x]]
                  IN  ParseFrom(toks, i + 2, done, next)

JSONParse(toks) == ParseFrom(toks, 1, <<>>, <<>>)

----------------------------------------------------------------------------
(* Coupon store and Order store (mongoose models; documents in insertion  *)
(* order, which is the order findOne scans them in)                        *)

Null == [null |-> TRUE]

\* The first document, from position i on, that a query matches (0: none);
\* hits[k] tells whether document k matches.
RECURSIVE FirstIndex(_, _)
FirstIndex(hits, i) ==
  IF i > Len(hits) THEN 0
  ELSE IF hits[i] THEN i
  ELSE FirstIndex(hits, i + 1)

\* Mutant of CouponFindOneActive: the owner is left out of the query.
CouponFindOneAnyOwner(store, code, userId) ==
  LET Match(c) == c.code = code /\ c.isActive
      i == FirstIndex([k \in DOMAIN store |-> Match(store[k])], 1)
  IN  IF i = 0 THEN Null ELSE store[i]

\* Coupon.findOne({ code, userId, isActive: true })
CouponFindOneActive(store, code, userId) ==
  LET Match(c) == c.code = code /\ c.userId = CastObjectId(userId) /\ c.isActive
      i == FirstIndex([k \in DOMAIN store |-> Match(store[k])], 1)
  IN  IF i = 0 THEN Null ELSE store[i]

\* Mutant of CouponFindOneAndUpdate: the filter names the user only.
CouponDeactivateByUser(store, code, userId) ==
  LET Match(c) == c.userId = CastObjectId(userId)
      i == FirstIndex([k \in DOMAIN store |-> Match(store[k])], 1)
  IN  IF i = 0 THEN store ELSE [store EXCEPT ![i].isActive = FALSE]

\* Mutant of CouponFindOneAndUpdate: the used coupon is removed, not deactivated.
CouponFindOneAndRemove(store, code, userId) ==
  LET Match(c) == c.code = code /\ c.userId = CastObjectId(userId)
      i == FirstIndex([k \in DOMAIN store |-> Match(store[k])], 1)
  IN  IF i = 0 THEN store
      ELSE SubSeq(store, 1, i - 1) \o SubSeq(store, i + 1, Len(store))

\* Coupon.findOneAndUpdate({ code, userId }, { isActive: false })
CouponFindOneAndUpdate(store, code, userId) ==
  LET Match(c) == c.code = code /\ c.userId = CastObjectId(userId)
      i == FirstIndex([k \in DOMAIN store |-> Match(store[k])], 1)
  IN  IF i = 0 THEN store ELSE [store EXCEPT ![i].isActive = FALSE]

\* Mutant of CouponFindOneAndDelete: the old coupon is retired, not removed.
CouponFindOneAndRetire(store, userId) ==
  LET Match(c) == c.userId = CastObjectId(userId)
      i == FirstIndex([k \in DOMAIN store |-> Match(store[k])], 1)
  IN  IF i = 0 THEN store ELSE [store EXCEPT ![i].isActive = FALSE]

\* Coupon.findOneAndDelete({ userId })
CouponFindOneAndDelete(store, userId) ==
  LET Match(c) == c.userId = CastObjectId(userId)
      i == FirstIndex([k \in DOMAIN store |-> Match(store[k])], 1)
  IN  IF i = 0 THEN store
      ELSE SubSeq(store, 1, i - 1) \o SubSeq(store, i + 1, Len(store))

\* new Coupon({...}).save(): isActive defaults to true.
CouponSave(store, code, userId) ==
  Append(store, [code |-> code, userId |-> CastObjectId(userId),
                 isActive |-> TRUE, discountPercentage |-> GiftDiscount])

\* newOrder.save(): the document gets the next _id.
OrderSave(store, order) ==
  Append(store, [x \in DOMAIN order \cup {"_id"} |->
                   IF x = "_id" THEN Len(store) + 1 ELSE order[x]])

----------------------------------------------------------------------------
(* Payment Gateway *)

\* stripe.coupons.create({ percent_off, duration: 'once' }): the id stands
\* for the discount object it names.
StripeCouponId(percentOff) == [percent_off |-> percentOff, duration |-> "once"]

RECURSIVE SumLineItems(_, _)
SumLineItems(lineItems, i) ==
  IF i > Len(lineItems) THEN 0
  ELSE lineItems[i].price_data.unit_amount * lineItems[i].quantity
         + SumLineItems(lineItems, i + 1)

\* The amount the gateway charges: the line items, less the percent-off of
\* the attached discount.
GatewayAmountTotal(lineItems, discounts) ==
  LET sub == SumLineItems(lineItems, 1)
  IN  IF Len(discounts) = 0 THEN sub
      ELSE sub - MathRound(sub * discounts[1].coupon.percent_off * 10)

\* stripe.checkout.sessions.create({...}): a new unpaid session.
GatewaySession(params) ==
  [payment_status |-> "unpaid",
   amount_total |-> GatewayAmountTotal(params.line_items, params.discounts),
   line_items |-> params.line_items,
   discounts |-> params.discounts,
   metadata |-> params.metadata]

----------------------------------------------------------------------------
(* Requests in flight *)

\* A handler that is not running: no request, no locals, nothing sent.
IdleProc ==
  [pc |-> "idle", handler |-> "none",
   user |-> Null, products |-> Null, couponCode |-> NoCode, sessionId |-> 0,
   totalAmount |-> 0, coupon |-> Null, discounts |-> <<>>, newCode |-> NoCode,
   session |-> Null,
   res |-> <<>>, calls |-> <<>>, dirty |-> FALSE]

\* The ledger before the first request: u1 holds an active coupon, u2 one
\* that was used already.
InitCoupons ==
  <<[code |-> "GIFTA", userId |-> ObjectId("u1"), isActive |-> TRUE,
     discountPercentage |-> GiftDiscount],
    [code |-> "GIFTB", userId |-> ObjectId("u2"), isActive |-> FALSE,
     discountPercentage |-> GiftDiscount]>>

\* The user store as created, part_000 lines 101-103.
UserInit == [user |-> Null, loading |-> FALSE, checkingAuth |-> TRUE]

\* let refreshPromise = null, part_000 line 176; returned holds the store
\* actions that have run to their end.
HttpInit == [requests |-> <<>>, refreshPromise |-> Null, refreshFailed |-> FALSE,
             returned |-> {}]

\* The cart store as created, server.js lines 51-56.
CartInit ==
  [cart |-> <<>>, coupon |-> Null, total |-> 0, subtotal |-> 0,
   isCouponApplied |-> FALSE, loading |-> FALSE]

Init ==
  /\ coupons = InitCoupons
  /\ orders = <<>>
  /\ sessions = <<>>
  /\ proc = [p \in Procs |-> IdleProc]
  /\ cartStore = CartInit
  /\ cartCalls = <<>>
  /\ userStore = UserInit
  /\ http = HttpInit

\* Handlers are anonymous: an arriving request takes the first slot that has
\* no request in flight (a slot keeps its last request until it is taken).
InFlight(pr) == pr.pc \notin {"idle", "done"}

Free(p) == ~InFlight(proc[p]) /\ \A q \in Procs : q < p => InFlight(proc[q])

\* res.status(status).json(body): the response is sent and the handler ends.
Respond(pr, status, body) ==
  [pr EXCEPT !.res = Append(@, [status |-> status, body |-> body]), !.pc = "done"]

\* A handler that returns without sending anything.
Return(pr) == [pr EXCEPT !.pc = "done"]

\* Mutant of Catch: the error is logged and nothing is sent.
CatchSilent(pr) == Return(pr)

\* The catch blocks, lines 89-94 and 148-154; createNewCoupon called on its
\* own has no catch block and just rejects.
Catch(pr) ==
  CASE pr.handler = "createCheckoutSession" ->
         Respond(pr, 500, [message |-> "Error processing checkout"])
    [] pr.handler = "checkoutSuccess" ->
         Respond(pr, 500, [message |-> "Error processing successful checkout"])
    [] OTHER -> Return(pr)

\* Issue an awaited call to a collaborator and suspend until it settles.
Await(pr, call, pc) == [pr EXCEPT !.calls = Append(@, call), !.pc = pc]

\* One resumption of handler p: its locals become np, the stores cs and os;
\* the handler is marked once one of its own steps has changed a store.
Resume(p, np, cs, os) ==
  /\ coupons' = cs
  /\ orders' = os
  /\ proc' = [proc EXCEPT ![p] =
                [np EXCEPT !.dirty = @ \/ cs # coupons \/ os # orders]]
  /\ UNCHANGED front

----------------------------------------------------------------------------
(* createCheckoutSession, lines 19-95 *)

\* Mutant of InvalidProducts: only the length is tested.
EmptyArrayOnly(products) == products.kind = "array" /\ Len(products.items) = 0

\* if (!Array.isArray(products) || products.length === 0)
InvalidProducts(products) == products.kind # "array" \/ Len(products.items) = 0

\* Lines 59-71: the arguments of sessions.create are evaluated in order, so
\* a coupon that was found has its discount object requested first.
ToSessionCreate(pr) ==
  IF pr.coupon # Null
  THEN Await(pr, "stripe.coupons.create", "couponsCreate")
  ELSE Await(pr, "stripe.checkout.sessions.create", "sessionsCreate")

\* Lines 60-82: what is sent to stripe.checkout.sessions.create.
SessionParams(pr) ==
  [line_items |-> LineItems(pr.products.items),
   discounts |-> pr.discounts,
   metadata |-> [userId |-> Str(IdToString(pr.user)),
                 couponCode |-> IF Truthy(pr.couponCode) THEN pr.couponCode ELSE "",
                 products |-> JSONStringify([i \in 1..Len(pr.products.items) |->
                                               SnapshotEntry(pr.products.items[i])])]]

\* if (totalAmount >= 20000), line 85
EarnsReward(totalAmount) == totalAmount >= RewardThreshold

\* res.status(200).json({ id: session.id, totalAmount: totalAmount / 100 })
CheckoutOk(pr) ==
  Respond(pr, 200, [id |-> pr.sessionId, totalAmount |-> pr.totalAmount * 10])

\* A request arrives; lines 21-47 run up to the first await.
CCS_Begin(p, requests) ==
  /\ Free(p)
  /\ \E r \in requests :
       LET pr == [IdleProc EXCEPT !.handler = "createCheckoutSession",
                                  !.user = ObjectId(r.user),
                                  !.products = r.products,
                                  !.couponCode = r.couponCode]
       IN  Resume(p,
                  IF InvalidProducts(r.products)
                  THEN Respond(pr, 400, [error |-> "Invalid or empty products array"])
                  ELSE IF Truthy(r.couponCode)
                  THEN Await(pr, "Coupon.findOne", "findOne")
                  ELSE ToSessionCreate(pr),
                  coupons, orders)
  /\ UNCHANGED sessions

CCS_Start(p) == CCS_Begin(p, CheckoutRequests)

\* The first request of a run, of any cart, user and code.
CCS_StartAny(p) == proc[p].pc = "idle" /\ CCS_Begin(p, AllCheckoutRequests)

\* Coupon.findOne settles, lines 47-57.
CCS_FindOne(p) ==
  /\ proc[p].pc = "findOne"
  /\ \/ Resume(p, Catch(proc[p]), coupons, orders)
     \/ LET pr == proc[p]
            found == CouponFindOneActive(coupons, pr.couponCode, pr.user)
            total == IF found # Null THEN ApplyDiscount(pr.totalAmount, found)
                     ELSE pr.totalAmount
        IN  Resume(p, ToSessionCreate([pr EXCEPT !.coupon = found, !.totalAmount = total]),
                   coupons, orders)
  /\ UNCHANGED sessions

\* createStripeCoupon settles, lines 68 and 165-172.
CCS_CouponsCreate(p) ==
  /\ proc[p].pc = "couponsCreate"
  /\ \/ Resume(p, Catch(proc[p]), coupons, orders)
     \/ LET pr == proc[p]
            id == StripeCouponId(pr.coupon.discountPercentage)
        IN  Resume(p, Await([pr EXCEPT !.discounts = <<[coupon |-> id]>>],
                            "stripe.checkout.sessions.create", "sessionsCreate"),
                   coupons, orders)
  /\ UNCHANGED sessions

\* stripe.checkout.sessions.create settles, lines 59-88; the gateway holds
\* at most cap sessions.
CCS_SessionsCreateUpTo(p, cap) ==
  /\ proc[p].pc = "sessionsCreate"
  /\ \/ /\ Resume(p, Catch(proc[p]), coupons, orders)
        /\ UNCHANGED sessions
     \/ /\ Len(sessions) < cap
        /\ sessions' = Append(sessions, GatewaySession(SessionParams(proc[p])))
        /\ LET pr == [proc[p] EXCEPT !.sessionId = Len(sessions) + 1]
           IN  Resume(p,
                      IF EarnsReward(pr.totalAmount)
                      THEN Await(pr, "Coupon.findOneAndDelete", "findOneAndDelete")
                      ELSE CheckoutOk(pr),
                      coupons, orders)

CCS_SessionsCreate(p) == CCS_SessionsCreateUpTo(p, MaxSessions)

----------------------------------------------------------------------------
(* createNewCoupon, lines 182-195 *)

\* Coupon.findOneAndDelete settles; the new coupon is built with a random
\* code and its save is issued.
RI_Delete(p) ==
  /\ proc[p].pc = "findOneAndDelete"
  /\ \/ Resume(p, Catch(proc[p]), coupons, orders)
     \/ \E code \in Codes :
          Resume(p, Await([proc[p] EXCEPT !.newCode = code], "Coupon.save", "couponSave"),
                 CouponFindOneAndDelete(coupons, proc[p].user), orders)
  /\ UNCHANGED sessions

\* newCoupon.save settles; the caller goes on (line 88) or the call returns.
RI_Save(p) ==
  /\ proc[p].pc = "couponSave"
  /\ \/ Resume(p, Catch(proc[p]), coupons, orders)
     \/ /\ Len(coupons) < MaxCoupons
        /\ Resume(p,
                  IF proc[p].handler = "createCheckoutSession"
                  THEN CheckoutOk(proc[p])
                  ELSE Return(proc[p]),
                  CouponSave(coupons, proc[p].newCode, proc[p].user), orders)
  /\ UNCHANGED sessions

\* createNewCoupon(userId) called on its own.
RI_Start(p) ==
  /\ Free(p)
  /\ \E user \in UserIds :
       Resume(p, Await([IdleProc EXCEPT !.handler = "createNewCoupon",
                                        !.user = ObjectId(user)],
                       "Coupon.findOneAndDelete", "findOneAndDelete"),
              coupons, orders)
  /\ UNCHANGED sessions

----------------------------------------------------------------------------
(* checkoutSuccess, lines 108-155 *)

\* Mutant of IsPaid: the status is tested for presence only.
HasPaymentStatus(session) == session.payment_status # ""

\* if (session.payment_status === 'paid')
IsPaid(session) == session.payment_status = "paid"

\* Mutant of NewOrder: amount_total is stored without the division by 100.
NewOrderInMinorUnits(session, sessionId) ==
  LET products == JSONParse(session.metadata.products)
  IN  [user |-> session.metadata.userId,
       products |-> [i \in 1..Len(products) |->
                       [k \in {f \in {"product", "quantity", "price"} :
                                 (IF f = "product" THEN "id" ELSE f) \in DOMAIN products[i]} |->
                          IF k = "product" THEN products[i].id ELSE products[i][k]]],
       totalAmount |-> session.amount_total * 1000,
       stripeSessionId |-> sessionId]

\* Lines 127-137: the Order built from the retrieved session.
NewOrder(session, sessionId) ==
  LET products == JSONParse(session.metadata.products)
  IN  [user |-> session.metadata.userId,
       products |-> [i \in 1..Len(products) |->
                       [k \in {f \in {"product", "quantity", "price"} :
                                 (IF f = "product" THEN "id" ELSE f) \in DOMAIN products[i]} |->
                          IF k = "product" THEN products[i].id ELSE products[i][k]]],
       totalAmount |-> session.amount_total * 10,
       stripeSessionId |-> sessionId]

\* Lines 126-139: the Order is built and its save is issued.
ToOrderSave(pr) == Await(pr, "Order.save", "orderSave")

\* The request arrives with one of the session ids; the session is asked from
\* the gateway, line 111.
CS_Begin(p, sessionIds) ==
  /\ Free(p)
  /\ \E sessionId \in sessionIds :
       Resume(p, Await([IdleProc EXCEPT !.handler = "checkoutSuccess",
                                        !.sessionId = sessionId],
                       "stripe.checkout.sessions.retrieve", "retrieve"),
              coupons, orders)
  /\ UNCHANGED sessions

CS_Start(p) == CS_Begin(p, 1..MaxSessions)

\* stripe.checkout.sessions.retrieve settles, lines 111-114; an id the
\* gateway does not know rejects.
CS_Retrieve(p) ==
  /\ proc[p].pc = "retrieve"
  /\ \/ Resume(p, Catch(proc[p]), coupons, orders)
     \/ /\ proc[p].sessionId \in DOMAIN sessions
        /\ LET session == sessions[proc[p].sessionId]
               pr == [proc[p] EXCEPT !.session = session]
           IN  Resume(p,
                      IF IsPaid(session)
                      THEN IF session.metadata.couponCode # ""
                           THEN Await(pr, "Coupon.findOneAndUpdate", "findOneAndUpdate")
                           ELSE ToOrderSave(pr)
                      ELSE Return(pr),
                      coupons, orders)
  /\ UNCHANGED sessions

\* Coupon.findOneAndUpdate settles, lines 115-124.
CS_FindOneAndUpdate(p) ==
  /\ proc[p].pc = "findOneAndUpdate"
  /\ \/ Resume(p, Catch(proc[p]), coupons, orders)
     \/ LET md == proc[p].session.metadata
        IN  Resume(p, ToOrderSave(proc[p]),
                   CouponFindOneAndUpdate(coupons, md.couponCode, md.userId), orders)
  /\ UNCHANGED sessions

\* newOrder.save settles, lines 139-146.
CS_OrderSave(p) ==
  /\ proc[p].pc = "orderSave"
  /\ \/ Resume(p, Catch(proc[p]), coupons, orders)
     \/ /\ Len(orders) < MaxOrders
        /\ LET saved == OrderSave(orders, NewOrder(proc[p].session, proc[p].sessionId))
           IN  Resume(p,
                      Respond(proc[p], 200,
                              [success |-> TRUE, orderId |-> saved[Len(saved)]._id]),
                      coupons, saved)
  /\ UNCHANGED sessions

----------------------------------------------------------------------------
(* Environment *)

\* The buyer completes the hosted payment: the gateway marks the session.
Pay(s) ==
  /\ s \in DOMAIN sessions
  /\ sessions[s].payment_status = "unpaid"
  /\ sessions' = [sessions EXCEPT ![s].payment_status = "paid"]
  /\ UNCHANGED <<coupons, orders, proc, front>>

----------------------------------------------------------------------------
(* useUserStore and the response interceptor, src/unnamed/part_000 lines 100-205 *)

\* The actions the store defines, lines 105-170.
UserStoreActions == {"signup", "login", "logout", "checkAuth"}

\* The statuses of the error responses.
ErrorStatuses == {401, 500}

\* axios.post(url): a request with a fresh config; the last three fields
\* record what the interceptor did with it.
NewRequest(url, caller) ==
  [url |-> url, caller |-> caller, state |-> "sent", _retry |-> FALSE,
   retries |-> 0, failedBefore |-> FALSE, refresh |-> "none"]

\* One step of the user store and axios.
UserStep(s, h) ==
  /\ userStore' = s
  /\ http' = h
  /\ UNCHANGED <<coupons, orders, sessions, proc, cartStore, cartCalls>>

Send(h, url, caller) ==
  [h EXCEPT !.requests = Append(@, NewRequest(url, caller))]

\* login, lines 130-144, up to the await.
Login ==
  /\ Len(http.requests) < MaxRequests
  /\ UserStep([userStore EXCEPT !.loading = TRUE], Send(http, "/auth/login", "login"))

\* logout, lines 146-156, up to the await.
Logout ==
  /\ Len(http.requests) < MaxRequests
  /\ UserStep(userStore, Send(http, "/auth/logout", "logout"))

\* checkAuth, lines 158-170, up to the await or the early return.
CheckAuth ==
  IF userStore.checkingAuth
  THEN UserStep(userStore, [http EXCEPT !.returned = @ \cup {"checkAuth"}])
  ELSE /\ Len(http.requests) < MaxRequests
       /\ UserStep([userStore EXCEPT !.checkingAuth = TRUE],
                   Send(http, "/auth/refresh-token", "checkAuth"))

\* The caller's code after its await resolves.
Resolved(s, caller) ==
  CASE caller = "login" -> [s EXCEPT !.user = "u1", !.loading = FALSE]
    [] caller = "logout" -> [s EXCEPT !.user = Null]
    [] caller = "checkAuth" -> [s EXCEPT !.checkingAuth = FALSE]

\* The caller's catch block.
Rejected(s, caller) ==
  CASE caller = "login" -> [s EXCEPT !.loading = FALSE]
    [] caller = "logout" -> s
    [] caller = "checkAuth" -> [s EXCEPT !.user = Null, !.checkingAuth = FALSE]

\* (response) => response, line 179.
Responds(r) ==
  /\ r \in DOMAIN http.requests
  /\ http.requests[r].state = "sent"
  /\ UserStep(Resolved(userStore, http.requests[r].caller),
              [http EXCEPT !.requests[r].state = "resolved",
                           !.returned = @ \cup {http.requests[r].caller}])

\* The error handler of the interceptor, lines 180-204.  The store has no
\* refreshToken action, so the call of line 193 throws before refreshPromise
\* is assigned: the catch block calls logout() and rejects.  No interceptor
\* ever finds a refreshPromise to wait for.
Intercept(h, r) ==
  LET marked == [h EXCEPT !.requests[r]._retry = TRUE,
                          !.requests[r].failedBefore = h.refreshFailed]
  IN  IF h.refreshPromise # Null
      THEN [marked EXCEPT !.requests[r].state = "awaitingRefresh",
                          !.requests[r].refresh = "waited"]
      ELSE IF "refreshToken" \in UserStoreActions
      THEN [marked EXCEPT !.requests[r].state = "awaitingRefresh",
                          !.requests[r].refresh = "started",
                          !.refreshPromise = [pending |-> r]]
      ELSE Send([marked EXCEPT !.requests[r].state = "rejected",
                               !.refreshFailed = TRUE,
                               !.returned = @ \cup {h.requests[r].caller}],
                "/auth/logout", "logout")

Fails(r) ==
  /\ r \in DOMAIN http.requests
  /\ http.requests[r].state = "sent"
  /\ \E status \in ErrorStatuses :
       IF status = 401 /\ ~http.requests[r]._retry
       THEN /\ Len(http.requests) < MaxRequests
            /\ LET h == Intercept(http, r)
               IN  UserStep(IF h.requests[r].state = "rejected"
                            THEN Rejected(userStore, http.requests[r].caller)
                            ELSE userStore,
                            h)
       ELSE UserStep(Rejected(userStore, http.requests[r].caller),
                     [http EXCEPT !.requests[r].state = "rejected",
                                  !.returned = @ \cup {http.requests[r].caller}])

----------------------------------------------------------------------------
(* useCartStore, src/backend/server.js lines 50-186 *)

\* Products of the catalogue; price in thousandths of a major unit.
Catalog ==
  { [_id |-> "p1", price |-> 50000],
    [_id |-> "p2", price |-> 20000] }

ProductIds == {product._id : product \in Catalog}

\* What GET /cart can answer with.
ServerCarts ==
  { <<>>,
    <<[_id |-> "p1", price |-> 50000, quantity |-> 2]>> }

\* The coupon GET /coupon and POST /coupon/validate answer with.
ServerCoupons == { [code |-> "GIFTA", discountPercentage |-> 10] }

\* Quantities the cart page sends to updateQuantity.
Quantities == {0, 2}

RECURSIVE SumCart(_, _)
SumCart(cart, i) ==
  IF i > Len(cart) THEN 0
  ELSE cart[i].price * cart[i].quantity + SumCart(cart, i + 1)

\* calculateTotals, lines 172-185 (the percentages used divide evenly).
CalculateTotals(s) ==
  LET subtotal == SumCart(s.cart, 1)
      total == IF s.coupon # Null
               THEN subtotal - (subtotal * s.coupon.discountPercentage) \div 100
               ELSE subtotal
  IN  [s EXCEPT !.subtotal = subtotal, !.total = total]

RemoveAt(seq, i) == SubSeq(seq, 1, i - 1) \o SubSeq(seq, i + 1, Len(seq))

\* prevState.cart.find((item) => item._id === product._id)
InCart(cart, productId) == \E i \in DOMAIN cart : cart[i]._id = productId

\* Lines 114-125: the cart with the product added.
NewCart(cart, product) ==
  IF InCart(cart, product._id)
  THEN [i \in DOMAIN cart |->
          IF cart[i]._id = product._id
          THEN [cart[i] EXCEPT !.quantity = @ + 1]
          ELSE cart[i]]
  ELSE Append(cart, [_id |-> product._id, price |-> product.price, quantity |-> 1])

\* prevState.cart.filter((item) => item._id !== productId)
Filtered(cart, productId) == SelectSeq(cart, LAMBDA item : item._id # productId)

\* Lines 157-164: the cart with the quantity of the product replaced.
Requantified(cart, productId, quantity) ==
  [i \in DOMAIN cart |->
     IF cart[i]._id = productId THEN [cart[i] EXCEPT !.quantity = quantity] ELSE cart[i]]

\* One step of the cart store: its state becomes s, its calls in flight c.
CartStep(s, c) ==
  /\ cartStore' = s
  /\ cartCalls' = c
  /\ UNCHANGED <<coupons, orders, sessions, proc, userStore, http>>

\* An asynchronous action is called: set({ loading: true }) and its request
\* is sent.
CartCall(action, arg) ==
  /\ Len(cartCalls) < MaxPending
  /\ CartStep([cartStore EXCEPT !.loading = TRUE],
              Append(cartCalls, [action |-> action, arg |-> arg]))

\* getMyCoupon, lines 58-68.
GetMyCoupon == CartCall("getMyCoupon", Null)

GetMyCouponSettles(i) ==
  /\ i \in DOMAIN cartCalls
  /\ cartCalls[i].action = "getMyCoupon"
  /\ \/ \E data \in ServerCoupons :
          CartStep([cartStore EXCEPT !.coupon = data, !.loading = FALSE],
                   RemoveAt(cartCalls, i))
     \/ CartStep([cartStore EXCEPT !.loading = FALSE], RemoveAt(cartCalls, i))

\* applyCoupon, lines 69-81.
ApplyCoupon == \E code \in Codes : CartCall("applyCoupon", code)

ApplyCouponSettles(i) ==
  /\ i \in DOMAIN cartCalls
  /\ cartCalls[i].action = "applyCoupon"
  /\ \/ \E data \in ServerCoupons :
          CartStep(CalculateTotals([cartStore EXCEPT !.coupon = data,
                                                     !.loading = FALSE,
                                                     !.isCouponApplied = TRUE]),
                   RemoveAt(cartCalls, i))
     \/ CartStep([cartStore EXCEPT !.loading = FALSE], RemoveAt(cartCalls, i))

\* removeCoupon, lines 83-87.
RemoveCoupon ==
  CartStep(CalculateTotals([cartStore EXCEPT !.coupon = Null, !.isCouponApplied = FALSE]),
           cartCalls)

\* getCartItems, lines 89-102.
GetCartItems == CartCall("getCartItems", Null)

GetCartItemsSettles(i) ==
  /\ i \in DOMAIN cartCalls
  /\ cartCalls[i].action = "getCartItems"
  /\ \/ \E data \in ServerCarts :
          CartStep(CalculateTotals([cartStore EXCEPT !.cart = data, !.loading = FALSE]),
                   RemoveAt(cartCalls, i))
     \/ CartStep([cartStore EXCEPT !.loading = FALSE, !.cart = <<>>],
                 RemoveAt(cartCalls, i))

\* clearCart, lines 104-106.
ClearCart ==
  CartStep([cartStore EXCEPT !.cart = <<>>, !.coupon = Null, !.total = 0, !.subtotal = 0],
           cartCalls)

\* addToCart, lines 108-133.
AddToCart == \E product \in Catalog : CartCall("addToCart", product)

AddToCartSettles(i) ==
  /\ i \in DOMAIN cartCalls
  /\ cartCalls[i].action = "addToCart"
  /\ \/ /\ \A k \in DOMAIN cartStore.cart : cartStore.cart[k].quantity < MaxQuantity
        /\ CartStep(CalculateTotals([cartStore EXCEPT
                                       !.cart = NewCart(@, cartCalls[i].arg)]),
                    RemoveAt(cartCalls, i))
     \/ CartStep([cartStore EXCEPT !.loading = FALSE], RemoveAt(cartCalls, i))

\* removeFromCart, lines 135-149.
RemoveFromCartCall(productId) == CartCall("removeFromCart", productId)

RemoveFromCart == \E productId \in ProductIds : RemoveFromCartCall(productId)

RemoveFromCartSettles(i) ==
  /\ i \in DOMAIN cartCalls
  /\ cartCalls[i].action = "removeFromCart"
  /\ \/ CartStep(CalculateTotals([cartStore EXCEPT
                                    !.cart = Filtered(@, cartCalls[i].arg)]),
                 RemoveAt(cartCalls, i))
     \/ CartStep([cartStore EXCEPT !.loading = FALSE], RemoveAt(cartCalls, i))

\* updateQuantity, lines 150-171.
UpdateQuantity ==
  \E productId \in ProductIds, quantity \in Quantities :
    IF quantity = 0
    THEN RemoveFromCartCall(productId)
    ELSE CartCall("updateQuantity", [productId |-> productId, quantity |-> quantity])

UpdateQuantitySettles(i) ==
  /\ i \in DOMAIN cartCalls
  /\ cartCalls[i].action = "updateQuantity"
  /\ \/ CartStep(CalculateTotals([cartStore EXCEPT
                                    !.cart = Requantified(@, cartCalls[i].arg.productId,
                                                          cartCalls[i].arg.quantity)]),
                 RemoveAt(cartCalls, i))
     \/ CartStep([cartStore EXCEPT !.loading = FALSE], RemoveAt(cartCalls, i))

----------------------------------------------------------------------------
(* Specifications *)

\* The two endpoints, POST /payments/checkout and /payments/checkout-success.
\* RI_Delete and RI_Save are not listed: line 85 never holds (totalAmount is
\* 0 or the discount of 0 there), so no request reaches createNewCoupon.
Next ==
  \/ \E p \in Procs : CCS_Start(p)
  \/ \E p \in Procs : CCS_FindOne(p)
  \/ \E p \in Procs : CCS_CouponsCreate(p)
  \/ \E p \in Procs : CCS_SessionsCreate(p)
  \/ \E p \in Procs : CS_Start(p)
  \/ \E p \in Procs : CS_Retrieve(p)
  \/ \E p \in Procs : CS_FindOneAndUpdate(p)
  \/ \E p \in Procs : CS_OrderSave(p)
  \/ \E s \in 1..MaxSessions : Pay(s)

Spec == Init /\ [][Next]_vars

\* createNewCoupon run on its own, as the Reward Issuer is specified to run,
\* next to reconciliations.  The run starts after u1 has opened a checkout
\* session with the coupon GIFTA (a state Spec reaches).
IssuerSession ==
  GatewaySession(SessionParams(
    [IdleProc EXCEPT !.user = ObjectId("u1"),
                     !.products = Array(<<Item("shirt"), Item("coat")>>),
                     !.couponCode = "GIFTA",
                     !.coupon = InitCoupons[1],
                     !.discounts = <<[coupon |-> StripeCouponId(InitCoupons[1].discountPercentage)]>>]))

InitIssuer ==
  /\ coupons = InitCoupons
  /\ orders = <<>>
  /\ sessions = <<IssuerSession>>
  /\ proc = [p \in Procs |-> IdleProc]
  /\ cartStore = CartInit
  /\ cartCalls = <<>>
  /\ userStore = UserInit
  /\ http = HttpInit

NextIssuer ==
  \/ \E p \in Procs : RI_Start(p)
  \/ \E p \in Procs : RI_Delete(p)
  \/ \E p \in Procs : RI_Save(p)
  \/ \E p \in Procs : CS_Start(p)
  \/ \E p \in Procs : CS_Retrieve(p)
  \/ \E p \in Procs : CS_FindOneAndUpdate(p)
  \/ \E p \in Procs : CS_OrderSave(p)
  \/ \E s \in 1..MaxSessions : Pay(s)

SpecIssuer == InitIssuer /\ [][NextIssuer]_vars

\* One checkout request, of any cart, user and code, handled on its own.
NextCheckout ==
  \/ CCS_StartAny(1)
  \/ CCS_FindOne(1)
  \/ CCS_CouponsCreate(1)
  \/ CCS_SessionsCreate(1)

SpecCheckout == Init /\ [][NextCheckout]_vars

\* Both endpoints and the Reward Issuer, one request at a time; the checkout
\* requests carry the requesting user's own coupon code.
OwnCodeRequests ==
  { Request("u1", Array(<<Item("shirt"), Item("coat")>>), "GIFTA"),
    Request("u2", Array(<<Item("coat")>>), "GIFTB") }

CCS_StartOwnCode(p) == CCS_Begin(p, OwnCodeRequests)

NextSerial ==
  \/ CCS_StartOwnCode(1)
  \/ CCS_FindOne(1)
  \/ CCS_CouponsCreate(1)
  \/ CCS_SessionsCreate(1)
  \/ RI_Start(1)
  \/ RI_Delete(1)
  \/ RI_Save(1)
  \/ CS_Start(1)
  \/ CS_Retrieve(1)
  \/ CS_FindOneAndUpdate(1)
  \/ CS_OrderSave(1)
  \/ \E s \in 1..MaxSessions : Pay(s)

SpecSerial == Init /\ [][NextSerial]_vars

\* u1 checks out with the coupon GIFTA again and again, one request at a
\* time, with room at the gateway for one session more.
CouponRequests == { Request("u1", Array(<<Item("shirt"), Item("coat")>>), "GIFTA") }

CCS_StartWithCoupon(p) == CCS_Begin(p, CouponRequests)

NextReuse ==
  \/ CCS_StartWithCoupon(1)
  \/ CCS_FindOne(1)
  \/ CCS_CouponsCreate(1)
  \/ CCS_SessionsCreateUpTo(1, MaxSessions + 1)
  \/ CS_Begin(1, 1..(MaxSessions + 1))
  \/ CS_Retrieve(1)
  \/ CS_FindOneAndUpdate(1)
  \/ CS_OrderSave(1)
  \/ \E s \in 1..(MaxSessions + 1) : Pay(s)

SpecReuse == Init /\ [][NextReuse]_vars

\* The cart page: the actions of the cart store and the settling of their
\* requests, in any order.
NextCart ==
  \/ GetMyCoupon
  \/ ApplyCoupon
  \/ RemoveCoupon
  \/ GetCartItems
  \/ ClearCart
  \/ AddToCart
  \/ RemoveFromCart
  \/ UpdateQuantity
  \/ \E i \in 1..MaxPending : GetMyCouponSettles(i)
  \/ \E i \in 1..MaxPending : ApplyCouponSettles(i)
  \/ \E i \in 1..MaxPending : GetCartItemsSettles(i)
  \/ \E i \in 1..MaxPending : AddToCartSettles(i)
  \/ \E i \in 1..MaxPending : RemoveFromCartSettles(i)
  \/ \E i \in 1..MaxPending : UpdateQuantitySettles(i)

SpecCart == Init /\ [][NextCart]_vars

\* The user store's actions and the answers to the requests they send.
NextAuth ==
  \/ Login
  \/ Logout
  \/ CheckAuth
  \/ \E r \in 1..MaxRequests : Responds(r)
  \/ \E r \in 1..MaxRequests : Fails(r)

SpecAuth == Init /\ [][NextAuth]_vars

----------------------------------------------------------------------------
(* Properties *)

Count(seq, x) == Cardinality({i \in DOMAIN seq : seq[i] = x})

Statuses(pr) == [i \in DOMAIN pr.res |-> pr.res[i].status]

Answered(pr, status) == pr.pc = "done" /\ Statuses(pr) = <<status>>

CouponsOf(code, owner) ==
  {i \in DOMAIN coupons : coupons[i].code = code /\ coupons[i].userId = ObjectId(owner)}

\* The quantity an item is charged for.
ChargedQuantity(item) ==
  IF "quantity" \in DOMAIN item /\ item.quantity # 0 THEN item.quantity ELSE 1

\* n is x (in thousandths) rounded to the nearest integer, halves up.
IsRounded(n, x) == 1000 * n <= x + 500 /\ x + 500 < 1000 * n + 1000

\* C1: however checkoutSuccess invocations follow or interleave one another,
\* the Order store holds at most one Order per stripeSessionId.
C1_OneOrderPerSession ==
  \A i, j \in DOMAIN orders :
    orders[i].stripeSessionId = orders[j].stripeSessionId => i = j

\* An Order line item written back as a snapshot entry.
AsSnapshotEntry(item) ==
  [k \in {IF f = "product" THEN "id" ELSE f : f \in DOMAIN item} |->
     IF k = "id" THEN item.product ELSE item[k]]

\* C2: a checkoutSuccess call on a paid session that runs to its 200 answer
\* leaves the coupon of metadata.couponCode and metadata.userId inactive and
\* has added one Order, the one it answers with: its totalAmount is
\* amount_total / 100, its stripeSessionId the session id and its line items
\* the metadata snapshot, entry by entry and in order.
C2_PaidSessionReconciled ==
  \A p \in Procs :
    LET pr == proc[p] IN
    (pr.handler = "checkoutSuccess" /\ Answered(pr, 200)) =>
      LET md == pr.session.metadata
          mine == {i \in DOMAIN orders : orders[i]._id = pr.res[1].body.orderId}
      IN  /\ pr.session.payment_status = "paid"
          /\ Cardinality(mine) = 1
          /\ \A i \in mine :
               /\ orders[i].totalAmount * 100 = pr.session.amount_total * 1000
               /\ orders[i].stripeSessionId = pr.sessionId
               /\ JSONStringify([k \in DOMAIN orders[i].products |->
                                   AsSnapshotEntry(orders[i].products[k])]) = md.products
          /\ md.couponCode # "" =>
               \A i \in CouponsOf(md.couponCode, md.userId.str) : ~coupons[i].isActive

C2_Witness ==
  \E p \in Procs :
    /\ proc[p].handler = "checkoutSuccess" /\ Answered(proc[p], 200)
    /\ proc[p].session.metadata.couponCode = "GIFTA"
    /\ CouponsOf("GIFTA", proc[p].session.metadata.userId.str) # {}
    /\ Len(orders[proc[p].res[1].body.orderId].products) = 2

\* C3: no step of a checkoutSuccess call that has not retrieved a paid
\* session changes the Order store or the Coupon store.
C3_UnpaidChangesNothing ==
  [][\A p \in Procs :
       (/\ proc'[p] # proc[p]
        /\ proc'[p].handler = "checkoutSuccess"
        /\ (proc'[p].session = Null \/ proc'[p].session.payment_status # "paid"))
       => (coupons' = coupons /\ orders' = orders)]_vars

C3_Witness ==
  \E p \in Procs :
    /\ proc[p].handler = "checkoutSuccess" /\ proc[p].pc = "done"
    /\ proc[p].session # Null
    /\ proc[p].session.payment_status = "unpaid"
    /\ proc[p].session.metadata.couponCode # ""

\* C4: a createCheckoutSession call whose products is not an array or is an
\* empty array answers 400 and calls neither the gateway nor the Coupon store.
C4_InvalidProductsRejected ==
  \A p \in Procs :
    LET pr == proc[p] IN
    (/\ pr.handler = "createCheckoutSession"
     /\ (pr.products.kind # "array" \/ pr.products.items = <<>>))
    => /\ Answered(pr, 400)
       /\ pr.calls = <<>>
       /\ ~pr.dirty

C4_Witness ==
  \E p \in Procs :
    /\ proc[p].handler = "createCheckoutSession"
    /\ proc[p].products.kind = "object"
    /\ proc[p].couponCode = "GIFTA"
    /\ Answered(proc[p], 400)

\* C5: the session a createCheckoutSession call creates for a cart of N
\* items has N line items in cart order, the i-th with unit_amount the
\* rounding of price_i * 100 and the quantity of item i, or 1 when that
\* quantity is absent or 0.
C5_LineItemsFollowCart ==
  \A p \in Procs :
    LET pr == proc[p] IN
    (pr.handler = "createCheckoutSession" /\ Answered(pr, 200)) =>
      LET cart == pr.products.items
          sent == sessions[pr.res[1].body.id].line_items
      IN  /\ Len(sent) = Len(cart)
          /\ \A i \in DOMAIN cart :
               /\ IsRounded(sent[i].price_data.unit_amount, cart[i].price * 100)
               /\ sent[i].quantity = ChargedQuantity(cart[i])

C5_Witness ==
  \E p \in Procs :
    /\ proc[p].handler = "createCheckoutSession" /\ Answered(proc[p], 200)
    /\ proc[p].products.items = <<Item("cap"), Item("coat")>>
    /\ sessions[1].line_items[1].price_data.unit_amount = 2000
    /\ sessions[1].line_items[2].quantity = 1

\* C6: a createCheckoutSession call that gets as far as creating the session
\* has requested a discount object from the gateway once when its couponCode
\* names an active coupon of the requesting user, and never otherwise; the
\* session it creates carries one discount in the first case, none in the
\* second.  No call requests two.
C6_DiscountRequestedOnce ==
  \A p \in Procs :
    LET pr == proc[p]
        valid == /\ pr.couponCode \notin {NoCode, ""}
                 /\ \E i \in CouponsOf(pr.couponCode, pr.user.oid) : coupons[i].isActive
        expected == IF valid THEN 1 ELSE 0
    IN  pr.handler = "createCheckoutSession" =>
          /\ Count(pr.calls, "stripe.coupons.create") <= 1
          /\ pr.pc = "sessionsCreate" =>
               Count(pr.calls, "stripe.coupons.create") = expected
          /\ Answered(pr, 200) =>
               /\ Count(pr.calls, "stripe.coupons.create") = expected
               /\ Len(sessions[pr.res[1].body.id].discounts) = expected

C6_Witness ==
  \E p \in Procs :
    /\ proc[p].handler = "createCheckoutSession" /\ Answered(proc[p], 200)
    /\ proc[p].couponCode = "GIFTA" /\ proc[p].user = ObjectId("u1")
    /\ Count(proc[p].calls, "stripe.coupons.create") = 1
    /\ Len(sessions[1].discounts) = 1

\* The order total of a cart in minor units: the rounded price of each item
\* times its quantity (1 for an item that names none).
RECURSIVE CartTotal(_, _)
CartTotal(cart, i) ==
  IF i > Len(cart) THEN 0
  ELSE ((cart[i].price * 100 + 500) \div 1000)
         * (IF "quantity" \in DOMAIN cart[i] THEN cart[i].quantity ELSE 1)
         + CartTotal(cart, i + 1)

\* C7: a createCheckoutSession call that answers 200 has minted one reward
\* coupon for the requesting user, and removed the coupon the user held, if
\* the total of the cart in minor units is at least 20000; it has created
\* and deleted no coupon if the total is lower.
C7_RewardIffOverThreshold ==
  \A p \in Procs :
    LET pr == proc[p] IN
    (pr.handler = "createCheckoutSession" /\ Answered(pr, 200)) =>
      IF CartTotal(pr.products.items, 1) >= 20000
      THEN /\ Count(pr.calls, "Coupon.save") = 1
           /\ Cardinality({i \in DOMAIN coupons : coupons[i].userId = pr.user}) = 1
      ELSE /\ Count(pr.calls, "Coupon.save") = 0
           /\ Count(pr.calls, "Coupon.findOneAndDelete") = 0
           /\ ~pr.dirty

C9_FailureLeavesNoPartialState ==
  \A p \in Procs :
    (/\ proc[p].handler \in {"createCheckoutSession", "checkoutSuccess"}
     /\ Answered(proc[p], 500))
    => ~proc[p].dirty

\* C10: checkoutSuccess sends nothing while it runs and at most one response
\* in all: a 500 when the retrieval throws, nothing when the session it
\* retrieved is not paid, and for a paid session either the 200 with success
\* and the id of the saved Order or the 500 of a later step that threw.
C10_OneResponseOrNone ==
  \A p \in Procs :
    LET pr == proc[p] IN
    pr.handler = "checkoutSuccess" =>
      /\ Len(pr.res) <= 1
      /\ pr.pc # "done" => pr.res = <<>>
      /\ pr.pc = "done" =>
           IF pr.session = Null THEN Statuses(pr) = <<500>>
           ELSE IF pr.session.payment_status # "paid" THEN pr.res = <<>>
           ELSE \/ Statuses(pr) = <<500>>
                \/ /\ Statuses(pr) = <<200>>
                   /\ pr.res[1].body.success
                   /\ pr.res[1].body.orderId \in {orders[i]._id : i \in DOMAIN orders}

C10_Witness ==
  \E p \in Procs, q \in Procs :
    /\ proc[p].handler = "checkoutSuccess" /\ proc[p].pc = "done"
    /\ proc[p].session # Null /\ proc[p].session.payment_status = "unpaid"
    /\ proc[p].res = <<>>
    /\ proc[q].handler = "checkoutSuccess" /\ Answered(proc[q], 200)

NamedBy(store, md) ==
  {i \in DOMAIN store : /\ store[i].code = md.couponCode
                        /\ store[i].userId = ObjectId(md.userId.str)}

\* C12: deactivation is idempotent: when checkoutSuccess reconciles a paid
\* session whose coupon { code, userId } is already inactive, the coupon stays
\* inactive and the Coupon store is left as it was, so the store after two
\* reconciliations is the store after one.
C12_DeactivationIdempotent ==
  [][\A p \in Procs :
       LET md == proc[p].session.metadata IN
       ( /\ proc[p].pc = "findOneAndUpdate"
         /\ proc'[p] # proc[p]
         /\ NamedBy(coupons, md) # {}
         /\ \A i \in NamedBy(coupons, md) : ~coupons[i].isActive )
       => /\ coupons' = coupons
          /\ \A i \in NamedBy(coupons', md) : ~coupons'[i].isActive]_vars

C12_Witness ==
  \E p \in Procs :
    /\ proc[p].handler = "checkoutSuccess" /\ Answered(proc[p], 200)
    /\ Len(orders) = 2
    /\ orders[1].stripeSessionId = orders[2].stripeSessionId
    /\ NamedBy(coupons, proc[p].session.metadata) # {}
    /\ \A i \in NamedBy(coupons, proc[p].session.metadata) : ~coupons[i].isActive
    /\ coupons # InitCoupons

\* The operation whose code runs in a step of handler p.
Operation(p) ==
  IF proc[p].pc \in {"findOneAndDelete", "couponSave"} THEN "createNewCoupon"
  ELSE proc'[p].handler

\* No coupon is created or deleted, and isActive only goes from true to false.
OnlyDeactivates ==
  /\ Len(coupons') = Len(coupons)
  /\ \A i \in DOMAIN coupons :
       /\ [coupons'[i] EXCEPT !.isActive = TRUE] = [coupons[i] EXCEPT !.isActive = TRUE]
       /\ coupons'[i].isActive => coupons[i].isActive

\* No coupon that stays in the store is deactivated.
NoneDeactivated ==
  \A i \in DOMAIN coupons' :
    ~coupons'[i].isActive => Count(coupons', coupons'[i]) <= Count(coupons, coupons'[i])

\* Orders are only added.
OrdersKept ==
  Len(orders') >= Len(orders) /\ SubSeq(orders', 1, Len(orders)) = orders

\* C13: store mutations are confined by operation: only checkoutSuccess sets
\* isActive to false or creates an Order, and it creates and deletes no coupon;
\* only createNewCoupon deletes or creates a coupon; createCheckoutSession
\* itself changes no isActive; no operation modifies or deletes an Order.
C13_MutationsConfined ==
  [][/\ OrdersKept
     /\ (\A p \in Procs : proc'[p] = proc[p]) => UNCHANGED <<coupons, orders>>
     /\ \A p \in Procs :
          proc'[p] # proc[p] =>
            /\ orders' # orders => Operation(p) = "checkoutSuccess"
            /\ coupons' # coupons => Operation(p) \in {"checkoutSuccess", "createNewCoupon"}
            /\ Operation(p) = "checkoutSuccess" => OnlyDeactivates
            /\ Operation(p) = "createNewCoupon" => NoneDeactivated /\ orders' = orders
            /\ Operation(p) = "createCheckoutSession" =>
                 UNCHANGED <<coupons, orders>>]_vars

C13_Witness ==
  /\ proc[1].handler = "createNewCoupon" /\ proc[1].pc = "done" /\ proc[1].dirty
  /\ orders # <<>>
  /\ \E i \in DOMAIN coupons : coupons[i] = [InitCoupons[1] EXCEPT !.isActive = FALSE]
  /\ \E i \in DOMAIN coupons : coupons[i].userId = ObjectId("u2") /\ coupons[i].isActive

\* C14: however the Reward Issuer and reconciliations interleave, the coupon
\* step of checkoutSuccess changes only a coupon whose code and userId are the
\* session's metadata.couponCode and metadata.userId: no coupon of another
\* user is deactivated, and a replacement coupon with another code, minted
\* after the session was created, is still active after the reconciliation.
C14_OnlyNamedCouponChanged ==
  [][\A p \in Procs :
       (proc[p].pc = "findOneAndUpdate" /\ proc'[p] # proc[p]) =>
         /\ Len(coupons') = Len(coupons)
         /\ \A i \in DOMAIN coupons :
              coupons'[i] # coupons[i] => i \in NamedBy(coupons, proc[p].session.metadata)]_vars

C14_Witness ==
  \E p \in Procs :
    /\ proc[p].handler = "checkoutSuccess" /\ Answered(proc[p], 200)
    /\ proc[p].session.metadata.couponCode = "GIFTA"
    /\ proc[p].session.metadata.userId = Str("u1")
    /\ \E i \in DOMAIN coupons :
         /\ coupons[i].userId = ObjectId("u1")
         /\ coupons[i].code = "GIFTB"
         /\ coupons[i].isActive
    /\ \E q \in Procs : proc[q].handler = "createNewCoupon" /\ proc[q].dirty

\* The sessions that carry a discount taken from the coupon { code, owner }.
Carrying(code, owner) ==
  {s \in DOMAIN sessions : /\ sessions[s].discounts # <<>>
                           /\ sessions[s].metadata.couponCode = code
                           /\ sessions[s].metadata.userId = Str(owner)}

\* C15: a coupon is single-use: it is attached as a discount to at most one
\* checkout session that ends up paid, and at most one Order is created from
\* the sessions that carried its code.
C15_CouponSingleUse ==
  \A code \in Codes, owner \in UserIds :
    /\ Cardinality({s \in Carrying(code, owner) : sessions[s].payment_status = "paid"}) <= 1
    /\ Cardinality({i \in DOMAIN orders :
                      orders[i].stripeSessionId \in Carrying(code, owner)}) <= 1

\* The product id the client supplied for a cart item.
SuppliedId(item) == IF "_id" \in DOMAIN item THEN item._id ELSE item.id

\* C16: in the session a createCheckoutSession call creates, snapshot entry i
\* of metadata.products records the quantity line item i is charged for and
\* the product id the client supplied for item i.
C16_SnapshotMatchesCharge ==
  \A p \in Procs :
    LET pr == proc[p] IN
    (pr.handler = "createCheckoutSession" /\ Answered(pr, 200)) =>
      LET cart == pr.products.items
          session == sessions[pr.res[1].body.id]
          snapshot == JSONParse(session.metadata.products)
      IN  /\ Len(snapshot) = Len(cart)
          /\ \A i \in DOMAIN cart :
               /\ "quantity" \in DOMAIN snapshot[i]
               /\ snapshot[i].quantity = session.line_items[i].quantity
               /\ "id" \in DOMAIN snapshot[i]
               /\ snapshot[i].id = SuppliedId(cart[i])

\* C17: every asynchronous action of the cart store that sets loading to true
\* sets it back to false once its request has settled, on success and on
\* failure: with no request in flight, loading is false.
C17_LoadingCleared == cartCalls = <<>> => ~cartStore.loading

\* C18: whenever no cart action is in flight, subtotal is the sum of
\* price * quantity over the cart and total is subtotal less
\* subtotal * discountPercentage / 100 when a coupon is held, subtotal otherwise.
C18_TotalsFollowCart ==
  cartCalls = <<>> =>
    /\ cartStore.subtotal = SumCart(cartStore.cart, 1)
    /\ cartStore.total =
         IF cartStore.coupon # Null
         THEN cartStore.subtotal
                - (cartStore.subtotal * cartStore.coupon.discountPercentage) \div 100
         ELSE cartStore.subtotal

\* The requests whose 401 the interceptor took up.
Intercepted == {r \in DOMAIN http.requests : http.requests[r]._retry}

\* C19: at most one token refresh is in progress at a time, a request is
\* retried at most once, and a 401 that comes after a refresh has failed
\* starts a new refresh.
C19_RefreshOncePerFailure ==
  /\ Cardinality({r \in DOMAIN http.requests :
                    /\ http.requests[r].refresh = "started"
                    /\ http.requests[r].state = "awaitingRefresh"}) <= 1
  /\ \A r \in DOMAIN http.requests : http.requests[r].retries <= 1
  /\ \A r \in Intercepted :
       http.requests[r].failedBefore => http.requests[r].refresh = "started"

\* C20: from the initial state of the user store, a call of checkAuth sends
\* the refresh-token request, and checkingAuth is false once the call is over.
C20_CheckAuthSettles ==
  "checkAuth" \in http.returned =>
    /\ \E r \in DOMAIN http.requests : http.requests[r].url = "/auth/refresh-token"
    /\ ~userStore.checkingAuth

====
